---- MODULE Spec2Model ----
(***************************************************************************)
(* Model of the Game class of twist-tac-toe                                *)
(* (src/twist-tac-toe/src/gameObjects/models/game.js).                     *)
(*                                                                         *)
(* The Game object is one record, `game`, whose fields carry the names of  *)
(* the object's fields.  Every public method is an operator from the       *)
(* object before the call (and the arguments) to a result                  *)
(*     [g |-> the object after the call, ret |-> what the call returned],  *)
(* and one action of the next-state relation.  `ret` is "true" or "false"  *)
(* for a boolean, "undefined" when the method returns nothing,             *)
(* "ReferenceError" when it throws, a Role for getMatchLeadingPlayer and   *)
(* a player for the two swaps.  The contract of a method is stated as an   *)
(* invariant: in every reachable state, the result the method computes     *)
(* from that state meets the contract.                                     *)
(*                                                                         *)
(* Board, Player and winnerCheckingSlidingWindow are imported by game.js   *)
(* from files that are not part of the sources at hand; they are modelled  *)
(* from their contracts in the specification (sections 1 and 6).           *)
(*                                                                         *)
(* Scores are kept in half points: addScore(1) adds 2, addScore(0.5)       *)
(* adds 1.                                                                 *)
(***************************************************************************)
EXTENDS Integers, Sequences, FiniteSets, TLC

\* ------------------------------------------------------------- bounds
\* Largest board (in cells) a caller asks for.
MaxCells == 2
\* Largest winning-line length a caller asks for.
MaxLen == 2
\* Largest piece count a caller asks for.
MaxNum == 2
\* Games counted in one match before the model stops scoring.
MaxGames == 2
\* Longest move history the model lets a player build.
MaxHist == 1

\* -------------------------------------------------------------- enums
Role == {"NONE", "P1", "P2"}
GameState == {"READY", "PREPARING", "ONGOING", "FINISHED"}
GameProp == {"SIZE", "WIN_LENGTH", "IS_LIMITED_PIECES", "NUM_PIECES", "IS_FIFO_ORDER"}
\* The two Player objects of a Game, by reference.
Players == {"player1", "player2"}

Min(a, b) == IF a < b THEN a ELSE b

\* -------------------------------------------------------------- Board
Grid(x, y) == (0 .. x - 1) \X (0 .. y - 1)

\* new Board(x, y): an empty grid.
Board(x, y) == [size |-> [x |-> x, y |-> y], cells |-> [c \in Grid(x, y) |-> "NONE"]]

\* Board.updateSize(x, y): the grid resized, the cells it keeps unchanged.
Board_updateSize(b, x, y) ==
    [size |-> [x |-> x, y |-> y],
     cells |-> [c \in Grid(x, y) |-> IF c \in DOMAIN b.cells THEN b.cells[c] ELSE "NONE"]]

\* Board.resetBoard(): every cell cleared.
Board_resetBoard(b) == [b EXCEPT !.cells = [c \in DOMAIN b.cells |-> "NONE"]]

\* Board.placeMark(x, y, role): places the mark iff the cell is in bounds and empty.
Board_canPlace(b, x, y) == <<x, y>> \in DOMAIN b.cells /\ b.cells[<<x, y>>] = "NONE"

Board_placeMark(b, x, y, role) ==
    IF Board_canPlace(b, x, y)
    THEN [b |-> [b EXCEPT !.cells[<<x, y>>] = role], ret |-> TRUE]
    ELSE [b |-> b, ret |-> FALSE]

\* Board.hasPlayableSquares(): some cell is empty.
Board_hasPlayableSquares(b) == \E c \in DOMAIN b.cells : b.cells[c] = "NONE"

\* ------------------------------------------------------------- Player
Player(role) == [role |-> role, score |-> 0, moveHistory |-> <<>>]

Player_updatePlayerMove(p, x, y) == [p EXCEPT !.moveHistory = Append(@, <<x, y>>)]
Player_resetPlayerMoveHistory(p) == [p EXCEPT !.moveHistory = <<>>]
\* amount in half points
Player_addScore(p, amount) == [p EXCEPT !.score = @ + amount]
Player_resetScore(p) == [p EXCEPT !.score = 0]

\* ------------------------------------------------------ Line detector
\* The four line directions: along x, along y, the two diagonals.
Directions == << <<1, 0>>, <<0, 1>>, <<1, 1>>, <<1, -1>> >>

\* The window of len cells along direction d whose (k+1)-th cell is (x, y).
Window(x, y, d, k, len) ==
    [i \in 1 .. len |-> <<x + (i - 1 - k) * d[1], y + (i - 1 - k) * d[2]>>]

AllOwned(cells, role, w) ==
    \A i \in DOMAIN w : w[i] \in DOMAIN cells /\ cells[w[i]] = role

\* winnerCheckingSlidingWindow(cells, role, x, y, winLength): the first window
\* through (x, y) whose cells all hold role, or the none-found signal.
winnerCheckingSlidingWindow(cells, role, x, y, len) ==
    LET WindowAt(n) == Window(x, y, Directions[(n \div len) + 1], n % len, len)
        wins == {n \in 0 .. (4 * len - 1) : AllOwned(cells, role, WindowAt(n))}
    IN  IF wins = {}
        THEN [found |-> FALSE, line |-> <<>>]
        ELSE [found |-> TRUE,
              line |-> WindowAt(CHOOSE n \in wins : \A m \in wins : n <= m)]

\* --------------------------------------------------------------- Game
\* constructor
Game(boardSizeX, boardSizeY, winLength, numPieces, isFifoOrder) ==
    [winLength |-> winLength,
     isLimitedPieces |-> FALSE,
     numPieces |-> numPieces,
     isFifoOrder |-> isFifoOrder,
     board |-> Board(boardSizeX, boardSizeY),
     player1 |-> Player("P1"),
     player2 |-> Player("P2"),
     currentPlayer |-> "player1",
     winner |-> "NONE",
     winCells |-> <<>>,
     firstTurnPlayer |-> "player1",
     totalGamesPlayed |-> 0,
     state |-> "READY"]

Other(p) == IF p = "player1" THEN "player2" ELSE "player1"

\* Mutant: a guard that forgets the games already played in the match.
isDuringMatch_IgnoresGamesPlayed(g) == g.state = "ONGOING"

isDuringMatch(g) ==
    IF g.state # "ONGOING" /\ g.totalGamesPlayed <= 0 THEN FALSE ELSE TRUE


updateNumPiecesEachPlayer(g, num) ==
    IF g.state # "ONGOING" THEN [g EXCEPT !.numPieces = num] ELSE g

\* Mutant: a resize that leaves winLength alone.
updateProp_size_NoClamp(g, x, y) ==
    [g |-> [g EXCEPT !.board = Board_updateSize(@, x, y)], ret |-> "true"]

updateProp_size(g, x, y) ==
    LET g1 == [g EXCEPT !.board = Board_updateSize(@, x, y)]
    IN  [g |-> IF x < g1.winLength \/ y < g1.winLength
               THEN [g1 EXCEPT !.winLength = IF x < y THEN x ELSE y]
               ELSE g1,
         ret |-> "true"]

\* Mutant: a setter that asks both dimensions to hold the line.
updateProp_winLength_BothDimensions(g, len) ==
    IF g.board.size.x >= len /\ g.board.size.y >= len
    THEN [g |-> [g EXCEPT !.winLength = len], ret |-> "true"]
    ELSE [g |-> g, ret |-> "false"]

updateProp_winLength(g, len) ==
    IF g.board.size.x >= len \/ g.board.size.y >= len
    THEN [g |-> [g EXCEPT !.winLength = len], ret |-> "true"]
    ELSE [g |-> g, ret |-> "false"]

updateProp_isLimitedPieces(g, isLimited) ==
    [g |-> [g EXCEPT !.isLimitedPieces = isLimited], ret |-> "true"]

\* The setter calls `game.updateNumPiecesEachPlayer(num)`, not
\* `this.updateNumPiecesEachPlayer(num)`.  game.js is an ES module that neither
\* declares nor imports `game`, so evaluating the identifier throws a
\* ReferenceError before anything is assigned: updateNumPiecesEachPlayer is never
\* reached and the call ends in the exception.
updateProp_numPieces(g, num) ==
    IF g.board.size.x * g.board.size.y >= num
    THEN [g |-> g, ret |-> "ReferenceError"]
    ELSE [g |-> g, ret |-> "false"]

updateProp_isFifoOrder(g, isFifo) ==
    [g |-> [g EXCEPT !.isFifoOrder = isFifo], ret |-> "true"]

\* updateProp(): the setter selected by prop, called on its own.  Nothing in it
\* looks at the state of the game.
updateProp(g, prop, arg) ==
    CASE prop = "SIZE" -> updateProp_size(g, arg.x, arg.y)
      [] prop = "WIN_LENGTH" -> updateProp_winLength(g, arg.len)
      [] prop = "IS_LIMITED_PIECES" -> updateProp_isLimitedPieces(g, arg.isLimited)
      [] prop = "NUM_PIECES" -> updateProp_numPieces(g, arg.num)
      [] prop = "IS_FIFO_ORDER" -> updateProp_isFifoOrder(g, arg.isFifo)

updateGameConfig(g, prop, arg) ==
    IF ~isDuringMatch(g)
    THEN CASE prop = "SIZE" -> updateProp_size(g, arg.x, arg.y)
           [] prop = "WIN_LENGTH" -> updateProp_winLength(g, arg.len)
           [] prop = "IS_LIMITED_PIECES" -> updateProp_isLimitedPieces(g, arg.isLimited)
           [] prop = "NUM_PIECES" -> updateProp_numPieces(g, arg.num)
           [] prop = "IS_FIFO_ORDER" -> updateProp_isFifoOrder(g, arg.isFifo)
           [] OTHER -> [g |-> g, ret |-> "false"]
    ELSE [g |-> g, ret |-> "false"]

\* Mutant: a preparation that forgets to leave PREPARING.
readyGame_StaysPreparing(g) ==
    LET g1 == [g EXCEPT !.state = "PREPARING", !.board = Board_resetBoard(@),
                        !.currentPlayer = g.firstTurnPlayer]
        g2 == [g1 EXCEPT ![g1.currentPlayer] = Player_resetPlayerMoveHistory(@)]
    IN  [g |-> [g2 EXCEPT !.winner = "NONE", !.winCells = <<>>], ret |-> "undefined"]

\* Mutant: a preparation that clears the histories of both players.
readyGame_ClearsBothHistories(g) ==
    [g |-> [g EXCEPT !.state = "READY", !.board = Board_resetBoard(@),
                     !.currentPlayer = g.firstTurnPlayer,
                     !.player1 = Player_resetPlayerMoveHistory(@),
                     !.player2 = Player_resetPlayerMoveHistory(@),
                     !.winner = "NONE", !.winCells = <<>>],
     ret |-> "undefined"]

\* Mutant: a preparation that clears nobody's history.
readyGame_KeepsHistory(g) ==
    [g |-> [g EXCEPT !.state = "READY", !.board = Board_resetBoard(@),
                     !.currentPlayer = g.firstTurnPlayer,
                     !.winner = "NONE", !.winCells = <<>>],
     ret |-> "undefined"]

readyGame(g) ==
    LET g1 == [g EXCEPT !.state = "PREPARING"]
        g2 == [g1 EXCEPT !.board = Board_resetBoard(@)]
        g3 == [g2 EXCEPT !.currentPlayer = g2.firstTurnPlayer]
        g4 == [g3 EXCEPT ![g3.currentPlayer] = Player_resetPlayerMoveHistory(@)]
        g5 == [g4 EXCEPT !.winner = "NONE", !.winCells = <<>>]
    IN  [g |-> [g5 EXCEPT !.state = "READY"], ret |-> "undefined"]

\* Mutant: a reset that forgets the count of games played.
resetMatch_KeepsGamesPlayed(g, firstTurnPlayer) ==
    LET g1 == [g EXCEPT !.player1 = Player_resetScore(@),
                        !.player2 = Player_resetScore(@)]
    IN  readyGame([g1 EXCEPT !.firstTurnPlayer = firstTurnPlayer])

\* Mutant: a reset that does not run the ready sequence.
resetMatch_NoReady(g, firstTurnPlayer) ==
    LET g1 == [g EXCEPT !.player1 = Player_resetScore(@),
                        !.player2 = Player_resetScore(@)]
    IN  [g |-> [g1 EXCEPT !.firstTurnPlayer = firstTurnPlayer,
                          !.totalGamesPlayed = 0],
         ret |-> "undefined"]

resetMatch(g, firstTurnPlayer) ==
    LET g1 == [g EXCEPT !.player1 = Player_resetScore(@),
                        !.player2 = Player_resetScore(@)]
        g2 == [g1 EXCEPT !.firstTurnPlayer = firstTurnPlayer,
                         !.totalGamesPlayed = 0]
    IN  readyGame(g2)

startGame(g) == [g |-> [g EXCEPT !.state = "ONGOING"], ret |-> "undefined"]

\* Mutant: a turn swap that keeps the turn.
swapTurns_KeepsTurn(g) == g

swapTurns(g) == [g EXCEPT !.currentPlayer = Other(g.currentPlayer)]

\* Mutant: a first-turn swap that keeps the first turn.
swapFirstTurn_KeepsFirstTurn(g) == g

swapFirstTurn(g) == [g EXCEPT !.firstTurnPlayer = Other(g.firstTurnPlayer)]

\* Mutant: a next game that swaps the first turn and prepares nothing.
nextGame_OnlySwaps(g) == [g |-> swapFirstTurn(g), ret |-> "undefined"]

nextGame(g) == readyGame(swapFirstTurn(g))

checkWinner(g, x, y) ==
    winnerCheckingSlidingWindow(g.board.cells, g[g.currentPlayer].role, x, y, g.winLength)

\* Mutant: a board that always reports a playable square.
checkValidMoves_AlwaysPlayable(g) == TRUE

checkValidMoves(g) == Board_hasPlayableSquares(g.board)

\* Mutant: a win that scores nothing.
finishWon_NoScore(g, line) ==
    [g EXCEPT !.winner = g.currentPlayer, !.winCells = line,
              !.totalGamesPlayed = @ + 1, !.state = "FINISHED"]

\* The branch taken when a winning line was found: the winner field receives the
\* current Player object itself.
finishWon(g, line) ==
    LET g1 == [g EXCEPT !.winner = g.currentPlayer, !.winCells = line]
        g2 == [g1 EXCEPT ![g1.currentPlayer] = Player_addScore(@, 2)]
    IN  [g2 EXCEPT !.totalGamesPlayed = @ + 1, !.state = "FINISHED"]

\* Mutant: a continuing game that is counted as played.
continueGame_CountsGame(g) ==
    [g EXCEPT !.currentPlayer = Other(g.currentPlayer), !.state = "ONGOING",
              !.totalGamesPlayed = @ + 1]

\* The branch taken while the board has an empty cell.
continueGame(g) == [swapTurns(g) EXCEPT !.state = "ONGOING"]

\* Mutant: a draw that passes the turn on.
finishDrawn_SwapsTurn(g) ==
    [g EXCEPT !.winner = "NONE",
              !.player1 = Player_addScore(@, 1),
              !.player2 = Player_addScore(@, 1),
              !.currentPlayer = Other(g.currentPlayer),
              !.totalGamesPlayed = @ + 1,
              !.state = "FINISHED"]

\* The branch taken on a full board without a line.
finishDrawn(g) ==
    LET g1 == [g EXCEPT !.winner = "NONE"]
        g2 == [g1 EXCEPT !.player1 = Player_addScore(@, 1),
                         !.player2 = Player_addScore(@, 1)]
    IN  [g2 EXCEPT !.totalGamesPlayed = @ + 1, !.state = "FINISHED"]

updateGameStateByLastMove(g, posX, posY) ==
    LET winCells == checkWinner(g, posX, posY)
    IN  [g |-> IF winCells.found THEN finishWon(g, winCells.line)
               ELSE IF checkValidMoves(g) THEN continueGame(g)
               ELSE finishDrawn(g),
         ret |-> "undefined"]

\* Mutant: a move that does not ask whether the game is ongoing.
playerMakeMove_NoStateCheck(g, x, y) ==
    LET placed == Board_placeMark(g.board, x, y, g[g.currentPlayer].role)
    IN  IF placed.ret
        THEN [g |-> [g EXCEPT !.board = placed.b,
                              ![g.currentPlayer] = Player_updatePlayerMove(@, x, y)],
              ret |-> "true"]
        ELSE [g |-> g, ret |-> "false"]

playerMakeMove(g, x, y) ==
    IF g.state # "ONGOING"
    THEN [g |-> g, ret |-> "false"]
    ELSE LET placed == Board_placeMark(g.board, x, y, g[g.currentPlayer].role)
         IN  IF placed.ret
             THEN [g |-> [g EXCEPT !.board = placed.b,
                                   ![g.currentPlayer] = Player_updatePlayerMove(@, x, y)],
                   ret |-> "true"]
             ELSE [g |-> g, ret |-> "false"]

\* Mutant: a tie that goes to player 1.
getMatchLeadingPlayer_TieGoesToP1(g) ==
    IF g.player1.score >= g.player2.score THEN g.player1.role
    ELSE g.player2.role

getMatchLeadingPlayer(g) ==
    IF g.player1.score > g.player2.score THEN g.player1.role
    ELSE IF g.player2.score > g.player1.score THEN g.player2.role
    ELSE "NONE"

\* ------------------------------------------------------ state machine
VARIABLES
    game    \* the Game object

vars == <<game>>

\* The arguments callers pass.
Sizes == {d \in (1 .. MaxCells) \X (1 .. MaxCells) : d[1] * d[2] <= MaxCells}
Coords == 0 .. MaxCells - 1
Lens == 1 .. MaxLen
Nums == 1 .. MaxNum

NoArg == [x |-> 0, y |-> 0, len |-> 0, isLimited |-> FALSE, num |-> 0, isFifo |-> FALSE]

ConfigArgs(prop) ==
    CASE prop = "SIZE" -> {[NoArg EXCEPT !.x = d[1], !.y = d[2]] : d \in Sizes}
      [] prop = "WIN_LENGTH" -> {[NoArg EXCEPT !.len = l] : l \in Lens}
      [] prop = "IS_LIMITED_PIECES" -> {[NoArg EXCEPT !.isLimited = b] : b \in BOOLEAN}
      [] prop = "NUM_PIECES" -> {[NoArg EXCEPT !.num = n] : n \in Nums}
      [] prop = "IS_FIFO_ORDER" -> {[NoArg EXCEPT !.isFifo = b] : b \in BOOLEAN}
      [] OTHER -> {NoArg}

\* One call of a method: the object becomes the one the method computes.
Do(result) == game' = result.g

\* The constructor stores its arguments as they are given.
Init ==
    \E d \in Sizes, len \in Lens, num \in Nums, fifo \in BOOLEAN :
      game = Game(d[1], d[2], len, num, fifo)

UpdateGameConfig ==
    \E prop \in GameProp \cup {"UNKNOWN"} :
      \E arg \in ConfigArgs(prop) :
        Do(updateGameConfig(game, prop, arg))

\* A setter of updateProp() called directly, past the guard of updateGameConfig.
UpdateProp ==
    \E prop \in GameProp :
      \E arg \in ConfigArgs(prop) :
        Do(updateProp(game, prop, arg))

UpdateNumPiecesEachPlayer ==
    \E num \in Nums : Do([g |-> updateNumPiecesEachPlayer(game, num), ret |-> "undefined"])

\* swapTurns() and swapFirstTurn() return the player they stored.
SwapTurns == Do([g |-> swapTurns(game), ret |-> swapTurns(game).currentPlayer])

SwapFirstTurn == Do([g |-> swapFirstTurn(game), ret |-> swapFirstTurn(game).firstTurnPlayer])

ReadyGame == Do(readyGame(game))

ResetMatch == \E p \in Players : Do(resetMatch(game, p))

StartGame == Do(startGame(game))

NextGame == Do(nextGame(game))

\* Any coordinates are taken, on the board or not: the method checks none.
UpdateGameStateByLastMove ==
    /\ game.totalGamesPlayed < MaxGames
    /\ \E x \in Coords, y \in Coords : Do(updateGameStateByLastMove(game, x, y))

PlayerMakeMove ==
    /\ Len(game[game.currentPlayer].moveHistory) < MaxHist
    /\ \E x \in Coords, y \in Coords :
         Do(playerMakeMove(game, x, y))

\* A getter: the object is left as it is.
GetMatchLeadingPlayer == Do([g |-> game, ret |-> getMatchLeadingPlayer(game)])

Next ==
    \/ UpdateGameConfig
    \/ UpdateProp
    \/ UpdateNumPiecesEachPlayer
    \/ ReadyGame
    \/ ResetMatch
    \/ StartGame
    \/ NextGame
    \/ UpdateGameStateByLastMove
    \/ PlayerMakeMove
    \/ SwapTurns
    \/ SwapFirstTurn
    \/ GetMatchLeadingPlayer

Spec == Init /\ [][Next]_vars

\* ------------------------------------------------- the call protocol
\* The orchestrating caller: it configures before the match, starts a prepared
\* game, follows each successful playerMakeMove(x, y) at once with
\* updateGameStateByLastMove(x, y), and asks for the next game once one has
\* finished.
ProtocolConfigure ==
    /\ game.state = "READY"
    /\ game.totalGamesPlayed = 0
    /\ UpdateGameConfig

ProtocolStart ==
    /\ game.state = "READY"
    /\ game.totalGamesPlayed < MaxGames
    /\ StartGame

\* One turn: playerMakeMove(x, y) and, if it returned true,
\* updateGameStateByLastMove(x, y) right after it.
ProtocolTurn ==
    /\ game.state = "ONGOING"
    /\ \E x \in Coords, y \in Coords :
         LET move == playerMakeMove(game, x, y)
         IN  IF move.ret = "true"
             THEN Do(updateGameStateByLastMove(move.g, x, y))
             ELSE Do(move)

ProtocolNextGame ==
    /\ game.state = "FINISHED"
    /\ NextGame

ProtocolNext ==
    \/ ProtocolConfigure
    \/ ProtocolStart
    \/ ProtocolTurn
    \/ ProtocolNextGame

\* The players keep making moves: a turn that changes the game is taken as long
\* as one is possible.
ProtocolSpec ==
    /\ Init
    /\ [][ProtocolNext]_vars
    /\ WF_vars(ProtocolTurn)

\* ------------------------------------------------------------- claims
\* The match-in-progress predicate as the specification words it.
MatchInProgress(g) == g.state = "ONGOING" \/ g.totalGamesPlayed > 0

\* The board of g holds no mark / no empty cell.
BoardEmpty(g) == \A c \in DOMAIN g.board.cells : g.board.cells[c] = "NONE"
BoardFull(g) == \A c \in DOMAIN g.board.cells : g.board.cells[c] # "NONE"

\* The number of marks on the board of g.
Marks(g) == Cardinality({c \in DOMAIN g.board.cells : g.board.cells[c] # "NONE"})

\* The configuration fields of g.
Config(g) ==
    <<g.board.size, g.winLength, g.isLimitedPieces, g.numPieces, g.isFifoOrder>>

\* The coordinates in the move history of player p.
HistoryOf(g, p) == {g[p].moveHistory[i] : i \in DOMAIN g[p].moveHistory}

\* The coordinates of the marks of player p on the board.
MarksOf(g, p) == {c \in DOMAIN g.board.cells : g.board.cells[c] = g[p].role}

\* The objects readyGame, nextGame and resetMatch compute from g.
Prepared(g) == {readyGame(g).g, nextGame(g).g} \cup {resetMatch(g, p).g : p \in Players}

\* The objects updateGameStateByLastMove computes from g.
Updated(g) ==
    {updateGameStateByLastMove(g, c[1], c[2]).g : c \in Coords \X Coords}

\* C1: at every operation boundary winLength <= min(boardSize.x, boardSize.y).
\* The code breaks it: WIN_LENGTH is accepted as soon as ONE dimension fits, and
\* the constructor stores the winLength it is given.
C1_WinLengthWithinBoard ==
    game.winLength <= Min(game.board.size.x, game.board.size.y)

\* C2: while state = ONGOING or totalGamesPlayed > 0, updateGameConfig returns
\* false for every selector and argument and changes no field of the Game.
C2_ConfigRejectedDuringMatch ==
    MatchInProgress(game)
      => \A prop \in GameProp \cup {"UNKNOWN"} :
           \A arg \in ConfigArgs(prop) :
             /\ updateGameConfig(game, prop, arg).ret = "false"
             /\ updateGameConfig(game, prop, arg).g = game

\* Between two games of a match, a call that would flip isFifoOrder is refused.
C2_Witness ==
    /\ game.state = "FINISHED"
    /\ game.totalGamesPlayed > 0
    /\ updateGameConfig(game, "IS_FIFO_ORDER",
                        [NoArg EXCEPT !.isFifo = ~game.isFifoOrder]).ret = "false"

\* C3: with no match in progress, updateGameConfig(SIZE, {x, y}) returns true,
\* sets the board size to (x, y), sets winLength to min(x, y) if x or y is below
\* the old winLength and keeps it otherwise; so winLength <= min(x, y) after it.
C3_SizeClampsWinLength ==
    ~MatchInProgress(game)
      => \A arg \in ConfigArgs("SIZE") :
           LET r == updateGameConfig(game, "SIZE", arg)
           IN  /\ r.ret = "true"
               /\ r.g.board.size = [x |-> arg.x, y |-> arg.y]
               /\ r.g.winLength =
                    IF arg.x < game.winLength \/ arg.y < game.winLength
                    THEN Min(arg.x, arg.y) ELSE game.winLength
               /\ r.g.winLength <= Min(arg.x, arg.y)

\* A prepared 1x2 game with winLength 2 whose resize to 2x1 clamps winLength.
C3_Witness ==
    /\ ~MatchInProgress(game)
    /\ game.board.size = [x |-> 1, y |-> 2]
    /\ game.winLength = 2
    /\ updateGameConfig(game, "SIZE", [NoArg EXCEPT !.x = 2, !.y = 1]).g.winLength = 1

\* C4: with no match in progress, updateGameConfig(WIN_LENGTH, {len}) returns
\* true and sets winLength to len exactly when boardSize.x >= len or
\* boardSize.y >= len; otherwise it returns false and changes nothing.
C4_WinLengthAcceptedIfOneDimensionFits ==
    ~MatchInProgress(game)
      => \A arg \in ConfigArgs("WIN_LENGTH") :
           LET r == updateGameConfig(game, "WIN_LENGTH", arg)
           IN  IF game.board.size.x >= arg.len \/ game.board.size.y >= arg.len
               THEN r.ret = "true" /\ r.g = [game EXCEPT !.winLength = arg.len]
               ELSE r.ret = "false" /\ r.g = game

\* A prepared game whose win length of 1 is raised to 2 although only one
\* dimension of the board holds 2.
C4_Witness ==
    /\ ~MatchInProgress(game)
    /\ game.winLength = 1
    /\ Min(game.board.size.x, game.board.size.y) = 1
    /\ updateGameConfig(game, "WIN_LENGTH", [NoArg EXCEPT !.len = 2]).ret = "true"
    /\ updateGameConfig(game, "WIN_LENGTH", [NoArg EXCEPT !.len = 2]).g.winLength = 2

\* C5: with no match in progress, updateGameConfig(NUM_PIECES, {num}) returns
\* true and sets numPieces to num when boardSize.x * boardSize.y >= num, returns
\* false and changes nothing otherwise, and never ends in an exception.
\* The code breaks it: the setter calls `game.updateNumPiecesEachPlayer`, and
\* `game` is not `this`.
C5_NumPiecesReturnsBoolean ==
    ~MatchInProgress(game)
      => \A arg \in ConfigArgs("NUM_PIECES") :
           LET r == updateGameConfig(game, "NUM_PIECES", arg)
           IN  IF game.board.size.x * game.board.size.y >= arg.num
               THEN r.ret = "true" /\ r.g = [game EXCEPT !.numPieces = arg.num]
               ELSE r.ret = "false" /\ r.g = game

\* C6: playerMakeMove(x, y) returns false and changes nothing when state is not
\* ONGOING or the cell is occupied or out of bounds; when state is ONGOING and
\* the cell is empty and in bounds it returns true, puts the current player's
\* role at (x, y), appends (x, y) to the current player's move history, and
\* leaves state, currentPlayer, the scores and totalGamesPlayed unchanged.
C6_MoveAcceptedIffOngoingAndFree ==
    \A x \in Coords, y \in Coords :
      LET r == playerMakeMove(game, x, y)
      IN  IF /\ game.state = "ONGOING"
             /\ <<x, y>> \in DOMAIN game.board.cells
             /\ game.board.cells[<<x, y>>] = "NONE"
          THEN /\ r.ret = "true"
               /\ r.g.board.cells =
                    [game.board.cells EXCEPT ![<<x, y>>] = game[game.currentPlayer].role]
               /\ r.g[game.currentPlayer].moveHistory =
                    Append(game[game.currentPlayer].moveHistory, <<x, y>>)
               /\ r.g.state = game.state
               /\ r.g.currentPlayer = game.currentPlayer
               /\ r.g.player1.score = game.player1.score
               /\ r.g.player2.score = game.player2.score
               /\ r.g.totalGamesPlayed = game.totalGamesPlayed
          ELSE r.ret = "false" /\ r.g = game

\* An ongoing game with one mark on a 1x2 board: the move to the free cell is
\* accepted, the move to the occupied cell is refused.
C6_Witness ==
    /\ game.state = "ONGOING"
    /\ game.board.size = [x |-> 1, y |-> 2]
    /\ game.board.cells[<<0, 0>>] = "P1"
    /\ playerMakeMove(game, 0, 1).ret = "true"
    /\ playerMakeMove(game, 0, 0).ret = "false"

\* C7: when updateGameStateByLastMove(x, y) finds a winning line through (x, y)
\* for the player who just moved, afterwards winner is that player's Role (P1 or
\* P2), winCells is the line, that player's score is up by 1 (2 half points),
\* the other's is unchanged, totalGamesPlayed is up by 1 and state is FINISHED.
\* The code breaks it: winner receives the Player object, not its role.
C7_WinnerIsRoleOfMover ==
    \A c \in Coords \X Coords :
      checkWinner(game, c[1], c[2]).found
        => LET r == updateGameStateByLastMove(game, c[1], c[2]).g
           IN  /\ r.winner = game[game.currentPlayer].role
               /\ r.winCells = checkWinner(game, c[1], c[2]).line
               /\ r[game.currentPlayer].score = game[game.currentPlayer].score + 2
               /\ r[Other(game.currentPlayer)].score = game[Other(game.currentPlayer)].score
               /\ r.totalGamesPlayed = game.totalGamesPlayed + 1
               /\ r.state = "FINISHED"

\* C8: when updateGameStateByLastMove(x, y) finds no winning line through (x, y)
\* and the board has no empty cell, afterwards winner is NONE, each score is up
\* by 0.5 (1 half point), totalGamesPlayed is up by 1, state is FINISHED and
\* currentPlayer is unchanged.
C8_DrawOnFullBoard ==
    \A c \in Coords \X Coords :
      (~checkWinner(game, c[1], c[2]).found /\ BoardFull(game))
        => LET r == updateGameStateByLastMove(game, c[1], c[2]).g
           IN  /\ r.winner = "NONE"
               /\ r.player1.score = game.player1.score + 1
               /\ r.player2.score = game.player2.score + 1
               /\ r.totalGamesPlayed = game.totalGamesPlayed + 1
               /\ r.state = "FINISHED"
               /\ r.currentPlayer = game.currentPlayer

\* The last move of a first game filled the 1x2 board, one cell each, with a
\* win length of 2: the update at that move ends the game drawn.
C8_Witness ==
    /\ game.state = "ONGOING"
    /\ game.totalGamesPlayed = 0
    /\ game.winLength = 2
    /\ game.board.size = [x |-> 1, y |-> 2]
    /\ game.board.cells[<<0, 0>>] = "P1"
    /\ game.board.cells[<<0, 1>>] = "P2"
    /\ game.currentPlayer = "player2"
    /\ updateGameStateByLastMove(game, 0, 1).g.state = "FINISHED"
    /\ updateGameStateByLastMove(game, 0, 1).g.winner = "NONE"

\* C9 as claimed: every increase of totalGamesPlayed is a step from ONGOING to
\* FINISHED (so never from READY or from an already FINISHED game, and at most
\* once between two preparations).
C9_CountedOnlyFromOngoing ==
    [][game'.totalGamesPlayed > game.totalGamesPlayed
         => (game.state = "ONGOING" /\ game'.state = "FINISHED")]_vars

\* C9 as amended: totalGamesPlayed increases only in updateGameStateByLastMove,
\* by exactly 1, and every increase ends in FINISHED; it never increases from
\* READY.  The method checks no state: it may start from ONGOING or from an
\* already FINISHED game, which is then counted again.
C9_CountedOnlyByUpdateIntoFinished ==
    [][game'.totalGamesPlayed > game.totalGamesPlayed
         => /\ game' \in Updated(game)
            /\ game'.totalGamesPlayed = game.totalGamesPlayed + 1
            /\ game'.state = "FINISHED"
            /\ game.state \in {"ONGOING", "FINISHED"}]_vars

\* A finished game that updateGameStateByLastMove counts a second time.
C9_Witness ==
    /\ game.state = "FINISHED"
    /\ game.totalGamesPlayed = 1
    /\ \E g \in Updated(game) : g.totalGamesPlayed = 2

\* C10 as claimed: the state changes only READY -> ONGOING by startGame,
\* ONGOING -> FINISHED by updateGameStateByLastMove and any state -> READY by
\* readyGame, nextGame or resetMatch.
C10_StateMachineAsDrawn ==
    [][game'.state # game.state
         => \/ /\ game' = startGame(game).g
               /\ game.state = "READY"
               /\ game'.state = "ONGOING"
            \/ /\ game' \in Updated(game)
               /\ game.state = "ONGOING"
               /\ game'.state = "FINISHED"
            \/ /\ game' \in Prepared(game)
               /\ game'.state = "READY"]_vars

\* C10 as amended: at every operation boundary the state is READY, ONGOING or
\* FINISHED; startGame ends in ONGOING from whatever state it is called in;
\* updateGameStateByLastMove ends in ONGOING or FINISHED from whatever state it
\* is called in; readyGame, nextGame and resetMatch end in READY; no other
\* method changes the state.
C10_StateMachineOfTheCode ==
    /\ [](/\ game.state \in {"READY", "ONGOING", "FINISHED"}
          /\ startGame(game).g.state = "ONGOING"
          /\ \A g \in Updated(game) : g.state \in {"ONGOING", "FINISHED"}
          /\ \A g \in Prepared(game) : g.state = "READY")
    /\ [][game'.state # game.state
            => \/ game' = startGame(game).g
               \/ game' \in Updated(game)
               \/ game' \in Prepared(game)]_vars

\* A won game, its line still on the board, that startGame puts back to ONGOING
\* without any preparation.
C10_Witness ==
    /\ game.state = "FINISHED"
    /\ game.winCells # <<>>
    /\ ~BoardEmpty(game)
    /\ startGame(game).g.state = "ONGOING"

\* C11: after nextGame() called in any state: state is READY, firstTurnPlayer
\* is the other player than before the call, currentPlayer = firstTurnPlayer,
\* the board is empty, winner is NONE, winCells is empty, and both scores and
\* totalGamesPlayed are unchanged.
C11_NextGameAlternatesFirstTurn ==
    LET r == nextGame(game).g
    IN  /\ r.state = "READY"
        /\ r.firstTurnPlayer \in Players
        /\ r.firstTurnPlayer # game.firstTurnPlayer
        /\ r.currentPlayer = r.firstTurnPlayer
        /\ BoardEmpty(r)
        /\ r.winner = "NONE"
        /\ r.winCells = <<>>
        /\ r.player1.score = game.player1.score
        /\ r.player2.score = game.player2.score
        /\ r.totalGamesPlayed = game.totalGamesPlayed

\* A finished game that player 2 began, its marks still on the board: the next
\* game is player 1's to begin.
C11_Witness ==
    /\ game.state = "FINISHED"
    /\ ~BoardEmpty(game)
    /\ game.firstTurnPlayer = "player2"
    /\ nextGame(game).g.firstTurnPlayer = "player1"

\* C12: after resetMatch(p), called in any state: both scores are 0,
\* totalGamesPlayed is 0, firstTurnPlayer = currentPlayer = p, state is READY,
\* the board is empty and the configuration is unchanged; so no match is in
\* progress and updateGameConfig is accepted again.
C12_ResetMatchStartsAfresh ==
    \A p \in Players :
      LET r == resetMatch(game, p).g
      IN  /\ r.player1.score = 0
          /\ r.player2.score = 0
          /\ r.totalGamesPlayed = 0
          /\ r.firstTurnPlayer = p
          /\ r.currentPlayer = p
          /\ r.state = "READY"
          /\ BoardEmpty(r)
          /\ Config(r) = Config(game)
          /\ ~MatchInProgress(r)
          /\ ~isDuringMatch(r)
          /\ \A arg \in ConfigArgs("IS_FIFO_ORDER") :
               updateGameConfig(r, "IS_FIFO_ORDER", arg).ret = "true"

\* The second game of a match, under way with a mark on the board and a score
\* on the books: a reset in favour of player 2 starts afresh.
C12_Witness ==
    /\ game.state = "ONGOING"
    /\ game.totalGamesPlayed > 0
    /\ game.player1.score > 0
    /\ ~BoardEmpty(game)
    /\ game.firstTurnPlayer = "player1"
    /\ resetMatch(game, "player2").g.firstTurnPlayer = "player2"
    /\ resetMatch(game, "player2").g.totalGamesPlayed = 0

\* C13: getMatchLeadingPlayer() returns P1 iff player1.score > player2.score,
\* P2 iff player2.score > player1.score and NONE iff the scores are equal; it
\* changes no state (the getter yields a Role and assigns nothing).
C13_LeaderHasStrictlyHigherScore ==
    LET leader == getMatchLeadingPlayer(game)
    IN  /\ leader = "P1" <=> game.player1.score > game.player2.score
        /\ leader = "P2" <=> game.player2.score > game.player1.score
        /\ leader = "NONE" <=> game.player1.score = game.player2.score

\* A tie on fractional scores: half a point each after one drawn game.
C13_Witness ==
    /\ game.player1.score = 1
    /\ game.player2.score = 1
    /\ getMatchLeadingPlayer(game) = "NONE"

\* C14: readyGame() called in any state ends with state READY, an empty board,
\* currentPlayer = firstTurnPlayer, winner NONE, winCells empty and the
\* first-turn player's move history empty, and leaves unchanged the other
\* player's move history, both scores, totalGamesPlayed, firstTurnPlayer and
\* the configuration.
C14_ReadyGameFrame ==
    LET r == readyGame(game).g
    IN  /\ r.state = "READY"
        /\ BoardEmpty(r)
        /\ r.currentPlayer = r.firstTurnPlayer
        /\ r.winner = "NONE"
        /\ r.winCells = <<>>
        /\ r[r.firstTurnPlayer].moveHistory = <<>>
        /\ r[Other(r.firstTurnPlayer)].moveHistory =
             game[Other(game.firstTurnPlayer)].moveHistory
        /\ r.player1.score = game.player1.score
        /\ r.player2.score = game.player2.score
        /\ r.totalGamesPlayed = game.totalGamesPlayed
        /\ r.firstTurnPlayer = game.firstTurnPlayer
        /\ Config(r) = Config(game)

\* A finished game in which both players moved: the preparation leaves the
\* move of the second player in their history.
C14_Witness ==
    /\ game.state = "FINISHED"
    /\ game.player1.moveHistory # <<>>
    /\ game.player2.moveHistory # <<>>
    /\ readyGame(game).g[game.firstTurnPlayer].moveHistory = <<>>
    /\ readyGame(game).g[Other(game.firstTurnPlayer)].moveHistory # <<>>

\* C15: when updateGameStateByLastMove(x, y) finds no winning line through
\* (x, y) and the board has an empty cell, afterwards currentPlayer is the other
\* of the two players, state is ONGOING, and totalGamesPlayed, both scores,
\* winner, winCells and the board are unchanged.
C15_GameContinuesWithOtherPlayer ==
    \A c \in Coords \X Coords :
      (~checkWinner(game, c[1], c[2]).found /\ ~BoardFull(game))
        => LET r == updateGameStateByLastMove(game, c[1], c[2]).g
           IN  /\ r.currentPlayer \in Players
               /\ r.currentPlayer # game.currentPlayer
               /\ r.state = "ONGOING"
               /\ r.totalGamesPlayed = game.totalGamesPlayed
               /\ r.player1.score = game.player1.score
               /\ r.player2.score = game.player2.score
               /\ r.winner = game.winner
               /\ r.winCells = game.winCells
               /\ r.board = game.board

\* Player 1 made the first move of a game on two cells and a line needs both:
\* the update passes the turn to player 2.
C15_Witness ==
    /\ game.state = "ONGOING"
    /\ game.winLength = 2
    /\ game.currentPlayer = "player1"
    /\ game.board.cells[<<0, 0>>] = "P1"
    /\ Marks(game) = 1
    /\ ~BoardFull(game)
    /\ updateGameStateByLastMove(game, 0, 0).g.currentPlayer = "player2"

\* C16 as claimed: winCells is non-empty only if state is FINISHED and the game
\* that just finished had a winner; whenever winner is NONE winCells is empty.
C16_WinCellsOnlyAfterWin ==
    /\ game.winCells # <<>> => (game.state = "FINISHED" /\ game.winner # "NONE")
    /\ game.winner = "NONE" => game.winCells = <<>>

\* C16 as amended: winCells is assigned in two places only.  The winning branch
\* of updateGameStateByLastMove stores the line found and ends in FINISHED;
\* readyGame, nextGame and resetMatch empty it.  So winCells is empty in READY
\* and whenever no game of the match was counted; every other method leaves it as it is, so
\* the line of a won game stays until the next preparation.
C16_WinCellsSetByWinClearedByPreparation ==
    /\ [](/\ game.state = "READY" => game.winCells = <<>>
          /\ game.totalGamesPlayed = 0 => game.winCells = <<>>
          /\ \A g \in Prepared(game) : g.winCells = <<>>)
    /\ [][game'.winCells # game.winCells
            => \/ game' \in Prepared(game)
               \/ \E c \in Coords \X Coords :
                    /\ checkWinner(game, c[1], c[2]).found
                    /\ game' = updateGameStateByLastMove(game, c[1], c[2]).g
                    /\ game'.winCells = checkWinner(game, c[1], c[2]).line
                    /\ game'.state = "FINISHED"
                    /\ game'.totalGamesPlayed = game.totalGamesPlayed + 1]_vars

\* A drawn game that still shows the line of the game won before it.
C16_Witness ==
    /\ game.state = "FINISHED"
    /\ game.winner = "NONE"
    /\ game.winCells # <<>>
    /\ game.player1.score + game.player2.score = 4
    /\ game.player1.score \in {1, 3}

\* C17: player1.score + player2.score = totalGamesPlayed in every reachable
\* state (scores in half points: the sum is twice the games played).
C17_ScoreConservation ==
    game.player1.score + game.player2.score = 2 * game.totalGamesPlayed

\* Two games played: one drawn, one won.
C17_Witness ==
    /\ game.totalGamesPlayed = 2
    /\ {game.player1.score, game.player2.score} = {1, 3}

\* C18: whenever configuration changes are permitted (state is not ONGOING and
\* totalGamesPlayed = 0) the board holds no mark; so an update accepted by
\* updateGameConfig is never applied to a board that holds marks.
C18_ConfigurableOnlyOnEmptyBoard ==
    /\ (game.state # "ONGOING" /\ game.totalGamesPlayed = 0) => BoardEmpty(game)
    /\ \A prop \in GameProp :
         \A arg \in ConfigArgs(prop) :
           updateGameConfig(game, prop, arg).ret = "true" => BoardEmpty(game)

\* Configuration is permitted again after a match in which marks were placed:
\* a history still holds a move of it, and the board is empty.
C18_Witness ==
    /\ ~isDuringMatch(game)
    /\ game.state = "READY"
    /\ \E p \in Players : game[p].moveHistory # <<>>
    /\ BoardEmpty(game)
    /\ \E arg \in ConfigArgs("SIZE") :
         /\ updateGameConfig(game, "SIZE", arg).ret = "true"
         /\ updateGameConfig(game, "SIZE", arg).g.board.size # game.board.size

\* C19: with limited pieces disabled and under the call protocol, an ONGOING
\* game never has a full board once its last move is resolved, the marks of a
\* game (one per accepted move) never exceed boardSize.x * boardSize.y, and
\* provided moves keep being made every ONGOING game eventually reaches
\* FINISHED.
C19_GameEndsWithinBoard ==
    /\ [](~game.isLimitedPieces
            => /\ game.state = "ONGOING" => ~BoardFull(game)
               /\ Marks(game) <= game.board.size.x * game.board.size.y)
    /\ (game.state = "ONGOING" /\ ~game.isLimitedPieces) ~> (game.state = "FINISHED")

\* A game that ended drawn with the move that filled the board.
C19_Witness ==
    /\ ~game.isLimitedPieces
    /\ game.state = "FINISHED"
    /\ BoardFull(game)
    /\ Marks(game) = 2
    /\ game.winner = "NONE"

\* C20 as claimed: with limited pieces disabled, at every operation boundary
\* each player's move history contains exactly the coordinates of that player's
\* marks on the board.
C20_HistoryIsMarksOnBoard ==
    ~game.isLimitedPieces
      => \A p \in Players : HistoryOf(game, p) = MarksOf(game, p)

\* C20 as amended: with limited pieces disabled, at every operation boundary
\* every mark on the board is in its owner's move history.  readyGame, nextGame
\* and resetMatch empty the board and the history of the player they make
\* firstTurnPlayer, and leave the history of the other player as it is: a
\* history may hold moves of earlier games as well.
C20_HistoryCoversMarksOnBoard ==
    ~game.isLimitedPieces
      => /\ \A p \in Players : MarksOf(game, p) \subseteq HistoryOf(game, p)
         /\ \A g \in Prepared(game) :
              /\ BoardEmpty(g)
              /\ g[g.firstTurnPlayer].moveHistory = <<>>
              /\ g[Other(g.firstTurnPlayer)].moveHistory
                   = game[Other(g.firstTurnPlayer)].moveHistory

\* A prepared game: the board is empty and the player who moves second still
\* has the move of the game before in their history.
C20_Witness ==
    /\ ~game.isLimitedPieces
    /\ game.state = "READY"
    /\ game.totalGamesPlayed = 1
    /\ BoardEmpty(game)
    /\ game.currentPlayer = game.firstTurnPlayer
    /\ game[game.firstTurnPlayer].moveHistory = <<>>
    /\ game[Other(game.firstTurnPlayer)].moveHistory # <<>>

====
